---------------------------- MODULE Spec2Model ----------------------------
(***************************************************************************)
(* Model of src/app.py: the Country Forecast Dashboard.                    *)
(*                                                                         *)
(* A string is a sequence of one-character strings, so that str.lower()    *)
(* and the exact-match lookup of rename_map are computed character by      *)
(* character.  The empty sequence NaN is the missing value: read_csv reads *)
(* an empty cell as NaN.  A nullable number is <<>> (NA) or <<n>>.         *)
(* A DataFrame is a record [columns, rows]: columns is the sequence of     *)
(* column names, rows the sequence of rows, each row a function from the   *)
(* column names to cells.                                                  *)
(***************************************************************************)
EXTENDS Integers, Sequences, FiniteSets, TLC

(***************************************************************************)
(* Bounds of the model.                                                    *)
(***************************************************************************)
MaxRows == 3        \* rows in the three source files together
MaxCalls == 3       \* calls of load_data_forecast in the cache model
MaxEdits == 1       \* rewrites of a file in the cache model

(***************************************************************************)
(* Strings.                                                                *)
(***************************************************************************)
NaN == << >>

LowerAlphabet ==
  <<"a","b","c","d","e","f","g","h","i","j","k","l","m",
    "n","o","p","q","r","s","t","u","v","w","x","y","z">>

UpperAlphabet ==
  <<"A","B","C","D","E","F","G","H","I","J","K","L","M",
    "N","O","P","Q","R","S","T","U","V","W","X","Y","Z">>

Digits == <<"0","1","2","3","4","5","6","7","8","9">>

\* str.lower() on one character: an upper-case letter maps to its lower-case
\* letter, every other character to itself.
LowerChar(c) ==
  IF \E i \in 1..Len(UpperAlphabet) : UpperAlphabet[i] = c
    THEN LowerAlphabet[CHOOSE i \in 1..Len(UpperAlphabet) : UpperAlphabet[i] = c]
    ELSE c

UpperChar(c) ==
  IF \E i \in 1..Len(LowerAlphabet) : LowerAlphabet[i] = c
    THEN UpperAlphabet[CHOOSE i \in 1..Len(LowerAlphabet) : LowerAlphabet[i] = c]
    ELSE c

\* str.lower()
Lower(s) == [i \in 1..Len(s) |-> LowerChar(s[i])]

IsDigit(c) == \E i \in 1..Len(Digits) : Digits[i] = c

DigitValue(c) == (CHOOSE i \in 1..Len(Digits) : Digits[i] = c) - 1

RECURSIVE DecimalValue(_)
DecimalValue(s) ==
  IF Len(s) = 0 THEN 0
  ELSE 10 * DecimalValue(SubSeq(s, 1, Len(s) - 1)) + DigitValue(s[Len(s)])

\* pd.to_numeric(..., errors="coerce") on one cell: a numeral becomes its
\* number, NaN and every cell that is no numeral become NA.
to_numeric(s) ==
  IF Len(s) > 0 /\ \A i \in 1..Len(s) : IsDigit(s[i])
    THEN <<DecimalValue(s)>>
    ELSE NaN

isna(cell) == cell = NaN

(***************************************************************************)
(* Column names and labels of the program.                                 *)
(***************************************************************************)
COUNTRY == <<"C","O","U","N","T","R","Y">>
INDICATOR == <<"I","N","D","I","C","A","T","O","R">>
TAHUN == <<"T","A","H","U","N">>
VALUE == <<"V","A","L","U","E">>
TYPE == <<"T","Y","P","E">>
IS_FORECAST == <<"I","S","_","F","O","R","E","C","A","S","T">>

Indonesia == <<"I","n","d","o","n","e","s","i","a">>
Japan == <<"J","a","p","a","n">>
Singapore == <<"S","i","n","g","a","p","o","r","e">>
Actual == <<"A","c","t","u","a","l">>
Forecast == <<"F","o","r","e","c","a","s","t">>
actual == <<"a","c","t","u","a","l">>
forecast == <<"f","o","r","e","c","a","s","t">>

\* The rename dictionary of load_data_forecast, key by key.
rename_map ==
     (<<"c","o","u","n","t","r","y">> :> COUNTRY)
  @@ (<<"C","o","u","n","t","r","y">> :> COUNTRY)
  @@ (<<"C","O","U","N","T","R","Y">> :> COUNTRY)
  @@ (<<"i","n","d","i","c","a","t","o","r">> :> INDICATOR)
  @@ (<<"I","n","d","i","c","a","t","o","r">> :> INDICATOR)
  @@ (<<"I","N","D","I","C","A","T","O","R">> :> INDICATOR)
  @@ (<<"t","a","h","u","n">> :> TAHUN)
  @@ (<<"y","e","a","r">> :> TAHUN)
  @@ (<<"Y","e","a","r">> :> TAHUN)
  @@ (<<"T","A","H","U","N">> :> TAHUN)
  @@ (<<"v","a","l","u","e">> :> VALUE)
  @@ (<<"V","a","l","u","e">> :> VALUE)
  @@ (<<"V","A","L","U","E">> :> VALUE)
  @@ (<<"t","y","p","e">> :> TYPE)
  @@ (<<"T","y","p","e">> :> TYPE)
  @@ (<<"T","Y","P","E">> :> TYPE)

\* The three default labels, in the order of zip(data_list, [...]).
default_country == <<Indonesia, Japan, Singapore>>

(***************************************************************************)
(* DataFrames.                                                             *)
(***************************************************************************)
Range(s) == {s[i] : i \in 1..Len(s)}

\* The lookup with the name lowercased first.
RenameColumnIgnoreCase(c) ==
  IF Lower(c) \in DOMAIN rename_map THEN rename_map[Lower(c)] ELSE c

\* d.rename(columns=rename_map) on one column name: the name's entry in the
\* dictionary if it is a key, the name itself otherwise.
RenameColumn(c) == IF c \in DOMAIN rename_map THEN rename_map[c] ELSE c

\* The column of d that is renamed to c (the sources modelled here have at most
\* one).
SourceOf(d, c) == CHOOSE k \in Range(d.columns) : RenameColumn(k) = c

\* d.rename(columns=rename_map, inplace=True)
Rename(d) ==
  LET cols == [i \in 1..Len(d.columns) |-> RenameColumn(d.columns[i])]
  IN [columns |-> cols,
      rows |-> [r \in 1..Len(d.rows) |->
                  [c \in Range(cols) |-> d.rows[r][SourceOf(d, c)]]]]

\* d[c] = v : the column is added at the end if it is new, and every row gets v.
SetColumn(d, c, v) ==
  LET cols == IF c \in Range(d.columns) THEN d.columns ELSE Append(d.columns, c)
  IN [columns |-> cols,
      rows |-> [r \in 1..Len(d.rows) |->
                  [k \in Range(cols) |-> IF k = c THEN v ELSE d.rows[r][k]]]]

\* DefaultCountry without its else branch: a present but empty column is left.
DefaultCountryAbsentOnly(d, label) ==
  IF COUNTRY \notin Range(d.columns) THEN SetColumn(d, COUNTRY, label) ELSE d

\* DefaultCountry with the else branch written as fillna(label).
DefaultCountryFillna(d, label) ==
  IF COUNTRY \notin Range(d.columns)
    THEN SetColumn(d, COUNTRY, label)
    ELSE [columns |-> d.columns,
          rows |-> [r \in 1..Len(d.rows) |->
                      [k \in Range(d.columns) |->
                         IF k = COUNTRY /\ isna(d.rows[r][k]) THEN label
                         ELSE d.rows[r][k]]]]

\* The body of the loop over zip(data_list, defaults) for one source.
DefaultCountry(d, label) ==
  IF COUNTRY \notin Range(d.columns)
    THEN SetColumn(d, COUNTRY, label)
    ELSE IF \A r \in 1..Len(d.rows) : isna(d.rows[r][COUNTRY])
           THEN SetColumn(d, COUNTRY, label)
           ELSE d

\* The body of the loop that defaults TYPE for one source.
DefaultType(d) ==
  IF TYPE \notin Range(d.columns) THEN SetColumn(d, TYPE, Actual) ELSE d

\* The columns of s that are not among those of seen, in their order in s.
RECURSIVE NewColumns(_, _)
NewColumns(s, seen) ==
  IF Len(s) = 0 THEN << >>
  ELSE IF s[1] \in seen THEN NewColumns(Tail(s), seen)
       ELSE <<s[1]>> \o NewColumns(Tail(s), seen \cup {s[1]})

\* A row widened to the columns cols: NaN where the row has no such column.
Widen(row, cols) ==
  [c \in cols |-> IF c \in DOMAIN row THEN row[c] ELSE NaN]

\* The rows of s without those that repeat an earlier row.
RECURSIVE DropDuplicates(_)
DropDuplicates(s) ==
  IF Len(s) = 0 THEN << >>
  ELSE LET front == SubSeq(s, 1, Len(s) - 1)
       IN IF s[Len(s)] \in Range(front) THEN DropDuplicates(front)
          ELSE Append(DropDuplicates(front), s[Len(s)])

\* concat followed by drop_duplicates().
concatDropDuplicates(data_list) ==
  LET c1 == data_list[1].columns
      c2 == c1 \o NewColumns(data_list[2].columns, Range(c1))
      cols == c2 \o NewColumns(data_list[3].columns, Range(c2))
      all == data_list[1].rows \o data_list[2].rows \o data_list[3].rows
  IN [columns |-> cols,
      rows |-> DropDuplicates([r \in 1..Len(all) |-> Widen(all[r], Range(cols))])]

\* pd.concat(data_list, ignore_index=True): the union of the columns in order
\* of first appearance, the rows of the frames one after the other.
concat(data_list) ==
  LET c1 == data_list[1].columns
      c2 == c1 \o NewColumns(data_list[2].columns, Range(c1))
      cols == c2 \o NewColumns(data_list[3].columns, Range(c2))
      all == data_list[1].rows \o data_list[2].rows \o data_list[3].rows
  IN [columns |-> cols,
      rows |-> [r \in 1..Len(all) |-> Widen(all[r], Range(cols))]]

\* df[c] = pd.to_numeric(df[c], errors="coerce"), cell by cell.
ToNumericColumn(d, c) ==
  [columns |-> d.columns,
   rows |-> [r \in 1..Len(d.rows) |->
               [k \in Range(d.columns) |->
                  IF k = c THEN to_numeric(d.rows[r][k]) ELSE d.rows[r][k]]]]

\* The comparison without str.lower().
IsForecastCellExact(t) == t = Forecast

\* df["TYPE"].str.lower() == "forecast" for one row: NaN lowercases to NaN,
\* which equals nothing.
IsForecastCell(t) == (~isna(t)) /\ Lower(t) = forecast

\* df["IS_FORECAST"] = df["TYPE"].str.lower() == "forecast"
AddIsForecast(d) ==
  LET cols == IF IS_FORECAST \in Range(d.columns) THEN d.columns
              ELSE Append(d.columns, IS_FORECAST)
  IN [columns |-> cols,
      rows |-> [r \in 1..Len(d.rows) |->
                  [k \in Range(cols) |->
                     IF k = IS_FORECAST THEN IsForecastCell(d.rows[r][TYPE])
                     ELSE d.rows[r][k]]]]

\* The three frames after the rename and the two defaulting loops.
Normalised(d1, d2, d3) ==
  LET raw == <<d1, d2, d3>>
  IN [i \in 1..3 |-> DefaultType(DefaultCountry(Rename(raw[i]), default_country[i]))]

\* The frame after the concatenation.
Merged(d1, d2, d3) == concat(Normalised(d1, d2, d3))

\* df["TAHUN"] and df["VALUE"] raise KeyError when no source has the column
\* (m is the frame after the concatenation).
LoadRaises(m) == TAHUN \notin Range(m.columns) \/ VALUE \notin Range(m.columns)

\* The .str accessor needs an object column: when the merged frame has rows and
\* every TYPE cell is NaN the column's dtype depends on how concat typed it,
\* so the accessor may raise or not.
LoadMayRaise(m) ==
  /\ Len(m.rows) > 0
  /\ \A r \in 1..Len(m.rows) : isna(m.rows[r][TYPE])

\* The coercions and the flag, on the frame after the concatenation.
Coerced(m) == AddIsForecast(ToNumericColumn(ToNumericColumn(m, TAHUN), VALUE))

\* The value load_data_forecast returns when it does not raise.
load_data_forecast(d1, d2, d3) == Coerced(Merged(d1, d2, d3))

(***************************************************************************)
(* The widgets and the filter section of the script.                       *)
(***************************************************************************)
ActualOnly == "Actual only"
ForecastOnly == "Forecast only"
ActualPlusForecast == "Actual + Forecast"

\* The options of the "Data Type" radio.
Modes == {ActualOnly, ForecastOnly, ActualPlusForecast}

\* df[c].dropna().unique(), as a set
UniqueNonNull(d, c) == {d.rows[r][c] : r \in 1..Len(d.rows)} \ {NaN}

\* sorted(df["COUNTRY"].dropna().unique()), as a set: the multiselect's options
semua_negara(d) == UniqueNonNull(d, COUNTRY)

\* sorted(df["INDICATOR"].dropna().unique()), as a set: the selectbox's options
semua_indikator(d) == UniqueNonNull(d, INDICATOR)

\* The years of df["TAHUN"].dropna()
Years(d) == {d.rows[r][TAHUN][1] : r \in {x \in 1..Len(d.rows) : ~isna(d.rows[x][TAHUN])}}

tahun_min(d) == CHOOSE y \in Years(d) : \A z \in Years(d) : y <= z

tahun_max(d) == CHOOSE y \in Years(d) : \A z \in Years(d) : y >= z

\* series == x, cell by cell: a missing cell equals nothing.
EqCell(cell, x) == (~isna(cell)) /\ (~isna(x)) /\ cell = x

\* df_tampil[df_tampil["COUNTRY"].isin(negara_dipilih)]
FilterCountry(d, S) ==
  LET keep(row) == row[COUNTRY] \in S
  IN [columns |-> d.columns, rows |-> SelectSeq(d.rows, keep)]

\* df_tampil[df_tampil["INDICATOR"] == indikator_dipilih]
FilterIndicator(d, I) ==
  LET keep(row) == EqCell(row[INDICATOR], I)
  IN [columns |-> d.columns, rows |-> SelectSeq(d.rows, keep)]

\* The if/elif on mode_data.
FilterMode(d, mode) ==
  LET isActual(row) == (~isna(row[TYPE])) /\ Lower(row[TYPE]) = actual
      isForecast(row) == (~isna(row[TYPE])) /\ Lower(row[TYPE]) = forecast
  IN CASE mode = ActualOnly -> [columns |-> d.columns, rows |-> SelectSeq(d.rows, isActual)]
       [] mode = ForecastOnly -> [columns |-> d.columns, rows |-> SelectSeq(d.rows, isForecast)]
       [] OTHER -> d

\* The year test with the upper end left out.
FilterYearExclusive(d, range) ==
  LET keep(row) == /\ ~isna(row[TAHUN])
                   /\ row[TAHUN][1] >= range[1]
                   /\ row[TAHUN][1] < range[2]
  IN [columns |-> d.columns, rows |-> SelectSeq(d.rows, keep)]

\* df_tampil[(TAHUN >= lo) & (TAHUN <= hi)]: a comparison with NA is NA, and
\* a mask entry NA selects nothing.
FilterYear(d, range) ==
  LET keep(row) == /\ ~isna(row[TAHUN])
                   /\ row[TAHUN][1] >= range[1]
                   /\ row[TAHUN][1] <= range[2]
  IN [columns |-> d.columns, rows |-> SelectSeq(d.rows, keep)]

\* Section 5 of the script, applied to a copy of d.
Filter(d, S, I, mode, range) ==
  FilterYear(FilterMode(FilterIndicator(FilterCountry(d, S), I), mode), range)

(***************************************************************************)
(* The chart and the detail table.                                         *)
(***************************************************************************)
Dashed == <<4, 4>>
Solid == <<1, 0>>

\* alt.condition(alt.datum.TYPE == "Forecast", [4, 4], [1, 0]) for one row
strokeDash(row) == IF row[TYPE] = Forecast THEN Dashed ELSE Solid

\* The marks of the chart: one per row of df_tampil, with its stroke.
Chart(d) == [r \in 1..Len(d.rows) |-> [row |-> d.rows[r], strokeDash |-> strokeDash(d.rows[r])]]

\* The characters in code point order.
CodePoints == Digits \o UpperAlphabet \o <<"_">> \o LowerAlphabet

CodePoint(c) == CHOOSE i \in 1..Len(CodePoints) : CodePoints[i] = c

\* s < t for two strings.
RECURSIVE StrLess(_, _)
StrLess(s, t) ==
  IF Len(t) = 0 THEN FALSE
  ELSE IF Len(s) = 0 THEN TRUE
  ELSE IF s[1] = t[1] THEN StrLess(Tail(s), Tail(t))
  ELSE CodePoint(s[1]) < CodePoint(t[1])

\* The order of sort_values(["COUNTRY", "TAHUN"]): missing values last.
RowLess(a, b) ==
  IF a[COUNTRY] # b[COUNTRY]
    THEN IF isna(a[COUNTRY]) THEN FALSE
         ELSE IF isna(b[COUNTRY]) THEN TRUE
         ELSE StrLess(a[COUNTRY], b[COUNTRY])
    ELSE IF isna(a[TAHUN]) THEN FALSE
         ELSE IF isna(b[TAHUN]) THEN TRUE
         ELSE a[TAHUN][1] < b[TAHUN][1]

\* row put into the sorted sequence s after every row that is not greater.
RECURSIVE Insert(_, _)
Insert(s, row) ==
  IF Len(s) = 0 THEN <<row>>
  ELSE IF RowLess(row, s[1]) THEN <<row>> \o s
       ELSE <<s[1]>> \o Insert(Tail(s), row)

RECURSIVE SortRows(_)
SortRows(s) ==
  IF Len(s) = 0 THEN << >>
  ELSE Insert(SortRows(SubSeq(s, 1, Len(s) - 1)), s[Len(s)])

\* df_tampil.sort_values(["COUNTRY", "TAHUN"])
sort_values(d) == [columns |-> d.columns, rows |-> SortRows(d.rows)]


(***************************************************************************)
(* The inputs of the model: source files, as read_csv returns them.        *)
(***************************************************************************)
path_indonesia == "data/DataIndonesiaForecast.csv"
path_jepang == "data/DataJepangForecast.csv"
path_singapore == "data/DataSingaporeForecast.csv"

Paths == {path_indonesia, path_jepang, path_singapore}

\* The call of section 3 of the script.
ScriptPaths == <<path_indonesia, path_jepang, path_singapore>>

HeaderTitle ==
  << <<"C","o","u","n","t","r","y">>, <<"I","n","d","i","c","a","t","o","r">>,
     <<"Y","e","a","r">>, <<"V","a","l","u","e">>, <<"T","y","p","e">> >>

HeaderLower ==
  << <<"i","n","d","i","c","a","t","o","r">>, <<"t","a","h","u","n">>,
     <<"v","a","l","u","e">> >>

HeaderUpper ==
  << <<"C","O","U","N","T","R","Y">>, <<"I","N","D","I","C","A","T","O","R">>,
     <<"Y","E","A","R">>, <<"V","A","L","U","E">>, <<"T","Y","P","E">> >>

HeaderPool == {HeaderTitle, HeaderLower, HeaderUpper}

Peru == <<"P","e","r","u">>
GDP == <<"G","D","P">>
gdp == <<"g","d","p">>
FORECAST == <<"F","O","R","E","C","A","S","T">>
ACTUAL == <<"A","C","T","U","A","L">>

\* The records the source files are filled from: what a line of a file says
\* about each field (a file has the cells of the columns its header names).
RecPool ==
  { [country |-> Japan, indicator |-> GDP, year |-> <<"2","0","2","0">>,
     value |-> <<"1","5">>, type |-> Forecast],
    [country |-> NaN, indicator |-> gdp, year |-> <<"2","0","2","1">>,
     value |-> <<"x">>, type |-> FORECAST],
    [country |-> Peru, indicator |-> GDP, year |-> <<"2","0","x">>,
     value |-> <<"7">>, type |-> ACTUAL],
    [country |-> Japan, indicator |-> GDP, year |-> <<"2","x">>,
     value |-> <<"2","0">>, type |-> NaN] }

\* The cell of record rec under the column named c.
RawCell(rec, c) ==
  LET n == Lower(c)
  IN CASE n = Lower(COUNTRY) -> rec.country
       [] n = Lower(INDICATOR) -> rec.indicator
       [] n = Lower(TAHUN) \/ n = <<"y","e","a","r">> -> rec.year
       [] n = Lower(VALUE) -> rec.value
       [] n = Lower(TYPE) -> rec.type
       [] OTHER -> NaN

\* The frame read from a file with header h and the lines recs.
MkFrame(h, recs) ==
  [columns |-> h,
   rows |-> [r \in 1..Len(recs) |-> [c \in Range(h) |-> RawCell(recs[r], c)]]]

\* The files with n lines, their header from headers and their lines from pool.
FrameSet(headers, pool, n) ==
  {MkFrame(h, recs) : h \in headers, recs \in [1..n -> pool]}

\* The headers, file by file, and the records of the files the script is run
\* on.
ScriptHeaders == <<{HeaderTitle}, {HeaderLower}, {HeaderTitle, HeaderLower}>>

ScriptRecPool == {rec \in RecPool : rec.type # NaN}

\* The headers and records of the files the loader alone is run on.
LoadHeaders == <<HeaderPool, HeaderPool, HeaderPool>>

LoadRecPool == {rec \in RecPool : rec.type # ACTUAL}

EmptyFrame == [columns |-> << >>, rows |-> << >>]

(***************************************************************************)
(* State.                                                                  *)
(***************************************************************************)
VARIABLES
  files,              \* the contents of the files, by path
  cache,              \* st.cache_data: path triple -> unified table
  history,            \* history: the calls of load_data_forecast so far, in order
  ret,                \* the last call of load_data_forecast: what it read and returned
  ncalls, nedits,     \* counters of the cache model
  pc,                 \* the section of the script that runs next
  df,                 \* the script's unified table
  negara_dipilih, indikator_dipilih, mode_data, rentang_tahun, valid_negara,
  df_tampil,
  messages,           \* the errors and warnings shown
  chart,              \* << >>, or <<marks>> once st.altair_chart ran
  table,              \* << >>, or <<frame>> once st.dataframe ran
  column, renamed     \* the rename model: a column name and what it is renamed to

vars ==
  <<files, cache, history, ret, ncalls, nedits, pc, df, negara_dipilih,
    indikator_dipilih, mode_data, rentang_tahun, valid_negara, df_tampil,
    messages, chart, table, column, renamed>>

scriptVars ==
  <<pc, df, negara_dipilih, indikator_dipilih, mode_data, rentang_tahun,
    valid_negara, df_tampil, messages, chart, table>>

renameVars == <<column, renamed>>

NoCall == [paths |-> << >>, raised |-> FALSE, value |-> EmptyFrame, reads |-> << >>]

\* Everything but the files and the column of the rename model, before the
\* script or any call ran.
InitRest ==
  /\ cache = << >>
  /\ history = << >>
  /\ ret = NoCall
  /\ ncalls = 0
  /\ nedits = 0
  /\ pc = "start"
  /\ df = EmptyFrame
  /\ negara_dipilih = {}
  /\ indikator_dipilih = NaN
  /\ mode_data = ActualPlusForecast
  /\ rentang_tahun = <<0, 0>>
  /\ valid_negara = TRUE
  /\ df_tampil = EmptyFrame
  /\ messages = {}
  /\ chart = << >>
  /\ table = << >>
  /\ renamed = NaN

\* Three files of at most MaxRows lines together.
InitFiles(headers, pool) ==
  \E n1 \in 0..MaxRows :
    \E n2 \in 0..(MaxRows - n1) :
      \E n3 \in 0..(MaxRows - n1 - n2) :
        \E f1 \in FrameSet(headers[1], pool, n1), f2 \in FrameSet(headers[2], pool, n2),
           f3 \in FrameSet(headers[3], pool, n3) :
          files = (path_indonesia :> f1 @@ path_jepang :> f2 @@ path_singapore :> f3)

Init == InitFiles(ScriptHeaders, ScriptRecPool) /\ InitRest /\ column = NaN

\* One file of each header, one line each.
FixedFiles ==
  (path_indonesia :> MkFrame(HeaderTitle, <<CHOOSE rec \in RecPool : rec.type = Forecast>>)
   @@ path_jepang :> MkFrame(HeaderLower, <<CHOOSE rec \in RecPool : rec.type = ACTUAL>>)
   @@ path_singapore :> MkFrame(HeaderUpper, <<CHOOSE rec \in RecPool : rec.type = FORECAST>>))

InitCache == files = FixedFiles /\ InitRest /\ column = NaN

\* The names a header can hold: every casing of the known field names, and
\* names that are none of them.
RECURSIVE Casings(_)
Casings(w) ==
  IF Len(w) = 0 THEN {<< >>}
  ELSE {<<c>> \o s : c \in {w[1], UpperChar(w[1])}, s \in Casings(Tail(w))}

KnownNames ==
  {<<"c","o","u","n","t","r","y">>, <<"i","n","d","i","c","a","t","o","r">>,
   <<"t","a","h","u","n">>, <<"y","e","a","r">>, <<"v","a","l","u","e">>,
   <<"t","y","p","e">>}

OtherNames == {<<"u","n","i","t">>, <<"R","e","g","i","o","n">>, <<"y","r">>}

ColumnNames == UNION {Casings(w) : w \in KnownNames} \cup OtherNames

InitRename ==
  /\ files = FixedFiles
  /\ InitRest
  /\ column \in ColumnNames

InitLoad == InitFiles(LoadHeaders, LoadRecPool) /\ InitRest /\ column = NaN

(***************************************************************************)
(* load_data_forecast behind st.cache_data.                                *)
(***************************************************************************)
\* The files the three pd.read_csv calls open, in order: the first that does
\* not exist raises and ends the call.
ReadsOf(p) ==
  IF p[1] \notin DOMAIN files THEN <<p[1]>>
  ELSE IF p[2] \notin DOMAIN files THEN <<p[1], p[2]>>
  ELSE <<p[1], p[2], p[3]>>

\* What the body of load_data_forecast can do on the files of p.
LoadOutcomes(p) ==
  LET fails == [raised |-> TRUE, value |-> EmptyFrame, reads |-> ReadsOf(p)]
  IN IF \E i \in 1..3 : p[i] \notin DOMAIN files THEN {fails}
     ELSE LET m == Merged(files[p[1]], files[p[2]], files[p[3]])
          IN IF LoadRaises(m) THEN {fails}
             ELSE {[raised |-> FALSE, value |-> Coerced(m), reads |-> ReadsOf(p)]}
                  \cup (IF LoadMayRaise(m) THEN {fails} ELSE {})

\* load_data_forecast without the decorator: the body runs on every call.
UncachedLoad(p) ==
  /\ \E o \in LoadOutcomes(p) :
       /\ ret' = [paths |-> p, raised |-> o.raised, value |-> o.value,
                  reads |-> o.reads]
       /\ cache' = cache
  /\ history' = Append(history, ret')

\* The decorated function: a triple in the cache returns the cached table and
\* the body does not run; otherwise the body runs, reads the files, and
\* its return value is stored (nothing is stored when it raises).
CachedLoad(p) ==
  /\ IF p \in DOMAIN cache
       THEN /\ ret' = [paths |-> p, raised |-> FALSE, value |-> cache[p], reads |-> << >>]
            /\ cache' = cache
       ELSE \E o \in LoadOutcomes(p) :
              /\ ret' = [paths |-> p, raised |-> o.raised, value |-> o.value,
                         reads |-> o.reads]
              /\ cache' = IF o.raised THEN cache ELSE (p :> o.value) @@ cache
  /\ history' = Append(history, ret')

(***************************************************************************)
(* The script, section by section.                                         *)
(***************************************************************************)
ErrNone == "Please select at least one country."
ErrTooMany == "Maximum of two countries allowed."
WarnSelection == "Please adjust the country selection."
WarnNoData == "No data available for the selected filters."

\* Section 3: df = load_data_forecast(...); an exception ends the script.
LoadData ==
  /\ pc = "start"
  /\ CachedLoad(ScriptPaths)
  /\ df' = ret'.value
  /\ pc' = IF ret'.raised THEN "crashed" ELSE "filters"
  /\ UNCHANGED <<files, ncalls, nedits, negara_dipilih, indikator_dipilih, mode_data,
                 rentang_tahun, valid_negara, df_tampil, messages, chart, table,
                 renameVars>>

\* The message of the validation of negara_dipilih, if any.
SidebarErrors(S) ==
  IF Cardinality(S) = 0 THEN {ErrNone}
  ELSE IF Cardinality(S) > 2 THEN {ErrTooMany}
  ELSE {}

\* What the selectbox can return: one of its options, None when it has none.
IndicatorChoices(d) == IF semua_indikator(d) = {} THEN {NaN} ELSE semua_indikator(d)

\* Section 4: the widgets return the user's choices.  df["INDICATOR"] raises
\* KeyError without the column, and int(...) raises when no year is known.
\* Whether st.slider accepts min_value = max_value depends on the Streamlit
\* release: it returns the one-year range or raises.
SidebarFilters ==
  /\ pc = "filters"
  /\ \E S \in SUBSET semua_negara(df) :
       /\ negara_dipilih' = S
       /\ valid_negara' = (Cardinality(S) # 0 /\ ~(Cardinality(S) > 2))
       /\ messages' = messages \cup SidebarErrors(S)
  /\ IF INDICATOR \notin Range(df.columns) \/ Years(df) = {}
       THEN /\ pc' = "crashed"
            /\ UNCHANGED <<indikator_dipilih, mode_data, rentang_tahun>>
       ELSE /\ pc' \in (IF tahun_min(df) = tahun_max(df) THEN {"filter", "crashed"}
                       ELSE {"filter"})
            /\ indikator_dipilih' \in IndicatorChoices(df)
            /\ mode_data' \in Modes
            /\ \E lo \in tahun_min(df)..tahun_max(df) :
                 \E hi \in lo..tahun_max(df) :
                   rentang_tahun' = <<lo, hi>>
  /\ UNCHANGED <<files, cache, history, ret, ncalls, nedits, df, df_tampil, chart,
                 table, renameVars>>

\* Section 5 without df.copy(), narrowing df itself.
FilterDataInPlace ==
  /\ pc = "filter"
  /\ df' = Filter(df, negara_dipilih, indikator_dipilih, mode_data, rentang_tahun)
  /\ df_tampil' = df'
  /\ pc' = "visualise"
  /\ UNCHANGED <<files, cache, history, ret, ncalls, nedits, negara_dipilih,
                 indikator_dipilih, mode_data, rentang_tahun, valid_negara, messages,
                 chart, table, renameVars>>

\* Section 5: df_tampil = df.copy(), narrowed four times.
FilterData ==
  /\ pc = "filter"
  /\ df_tampil' = Filter(df, negara_dipilih, indikator_dipilih, mode_data, rentang_tahun)
  /\ pc' = "visualise"
  /\ UNCHANGED <<files, cache, history, ret, ncalls, nedits, df, negara_dipilih,
                 indikator_dipilih, mode_data, rentang_tahun, valid_negara, messages,
                 chart, table, renameVars>>

\* Section 6: a warning, or the chart.
Visualise ==
  /\ pc = "visualise"
  /\ IF ~valid_negara
       THEN messages' = messages \cup {WarnSelection} /\ chart' = chart
       ELSE IF Len(df_tampil.rows) = 0
              THEN messages' = messages \cup {WarnNoData} /\ chart' = chart
              ELSE messages' = messages /\ chart' = <<Chart(df_tampil)>>
  /\ pc' = "table"
  /\ UNCHANGED <<files, cache, history, ret, ncalls, nedits, df, negara_dipilih,
                 indikator_dipilih, mode_data, rentang_tahun, valid_negara, df_tampil,
                 table, renameVars>>

\* Section 7: the expander with the detail table, outside the if of section 6.
DetailTable ==
  /\ pc = "table"
  /\ table' = <<sort_values(df_tampil)>>
  /\ pc' = "done"
  /\ UNCHANGED <<files, cache, history, ret, ncalls, nedits, df, negara_dipilih,
                 indikator_dipilih, mode_data, rentang_tahun, valid_negara, df_tampil,
                 messages, chart, renameVars>>

Next == LoadData \/ SidebarFilters \/ FilterData \/ Visualise \/ DetailTable

Spec == Init /\ [][Next]_vars

\* The loader alone, on every combination of the source files.
NextLoad == LoadData

SpecLoad == InitLoad /\ [][NextLoad]_vars


(***************************************************************************)
(* The cache model: calls of the decorated function with any path triple,  *)
(* and files rewritten between the calls.                                  *)
(***************************************************************************)
CallTriples ==
  {ScriptPaths,
   <<path_singapore, path_jepang, path_indonesia>>,
   <<path_singapore, path_singapore, path_singapore>>}

\* The contents a file is rewritten to.
EditPool == {FixedFiles[p] : p \in Paths}

\* A call of load_data_forecast.
Call ==
  /\ ncalls < MaxCalls
  /\ \E p \in CallTriples : CachedLoad(p)
  /\ ncalls' = ncalls + 1
  /\ UNCHANGED <<files, nedits, scriptVars, renameVars>>

\* A file is written while the process runs.
EditFile ==
  /\ nedits < MaxEdits
  /\ \E p \in Paths, f \in EditPool :
       /\ p \in DOMAIN files => f # files[p]
       /\ files' = (p :> f) @@ files
  /\ nedits' = nedits + 1
  /\ UNCHANGED <<cache, history, ret, ncalls, scriptVars, renameVars>>

\* A file is removed while the process runs.
DeleteFile ==
  /\ nedits < MaxEdits
  /\ \E p \in DOMAIN files : files' = [q \in DOMAIN files \ {p} |-> files[q]]
  /\ nedits' = nedits + 1
  /\ UNCHANGED <<cache, history, ret, ncalls, scriptVars, renameVars>>

NextCache == Call \/ EditFile \/ DeleteFile

SpecCache == InitCache /\ [][NextCache]_vars

(***************************************************************************)
(* The rename model: d.rename(columns=rename_map) on one column name.      *)
(***************************************************************************)
RenameStep ==
  /\ renamed = NaN
  /\ renamed' = RenameColumn(column)
  /\ UNCHANGED <<files, cache, history, ret, ncalls, nedits, scriptVars, column>>

NextRename == RenameStep

SpecRename == InitRename /\ [][NextRename]_vars


(***************************************************************************)
(* Notions the properties are stated with.                                 *)
(***************************************************************************)
\* The i-th source file of the script's call, and where its rows start in the
\* unified table.
Src(i) == files[ScriptPaths[i]]

Offset(i) ==
  CASE i = 1 -> 0
    [] i = 2 -> Len(Src(1).rows)
    [] i = 3 -> Len(Src(1).rows) + Len(Src(2).rows)

UnifiedRow(i, j) == df.rows[Offset(i) + j]

\* s equals the lower-case word w up to the case of its letters.
EqualsIgnoringCase(s, w) ==
  /\ Len(s) = Len(w)
  /\ \A i \in 1..Len(w) : s[i] \in {w[i], UpperChar(w[i])}

Upper(w) == [i \in 1..Len(w) |-> UpperChar(w[i])]

Title(w) == [i \in 1..Len(w) |-> IF i = 1 THEN UpperChar(w[i]) ELSE w[i]]

country == <<"c","o","u","n","t","r","y">>
indicator == <<"i","n","d","i","c","a","t","o","r">>
year == <<"y","e","a","r">>
tahun == <<"t","a","h","u","n">>
value == <<"v","a","l","u","e">>
type == <<"t","y","p","e">>

\* The spellings of the field name w that the loader recognises: lower case,
\* Title case and upper case, but no upper-case "year" and no Title-case
\* "tahun".
ListedSpellings(w) ==
  CASE w = year -> {w, Title(w)}
    [] w = tahun -> {w, Upper(w)}
    [] OTHER -> {w, Title(w), Upper(w)}

\* The columns of source d that hold the field w under a recognised spelling.
FieldColumns(d, w) == Range(d.columns) \cap ListedSpellings(w)

YearColumns(d) == FieldColumns(d, year) \cup FieldColumns(d, tahun)

HasField(d, w) == FieldColumns(d, w) # {}

\* The cell of row j of source d in its column for field w.
FieldCell(d, j, w) == d.rows[j][CHOOSE c \in FieldColumns(d, w) : TRUE]

\* The country column of source d holds no value at all.
CountryAllEmpty(d) == \A j \in 1..Len(d.rows) : FieldCell(d, j, country) = NaN

\* The default label of the i-th source.
DefaultLabel(i) == CASE i = 1 -> Indonesia [] i = 2 -> Japan [] i = 3 -> Singapore

\* The script's call of load_data_forecast has returned the unified table df.
Loaded == Len(history) = 1 /\ ~ret.raised

\* Section 5 of the script has run.
Filtered == pc \in {"visualise", "table", "done"}

(***************************************************************************)
(* C1.                                                                     *)
(***************************************************************************)
\* C1 (as claimed): every record of the unified table returned by
\* load_data_forecast has a non-null country, whatever the three sources hold.
C1_EveryCountryNonNull ==
  Loaded => \A r \in 1..Len(df.rows) : df.rows[r][COUNTRY] # NaN

\* C1 (amended): a record of the unified table has a null country exactly when
\* its source has a country column (under a spelling the loader recognises)
\* that holds a value in some row and is empty in the record's own row; every
\* other record has a non-null country.
C1_NullCountryOnlyInPartlyEmptyColumn ==
  Loaded =>
    \A i \in 1..3 : \A j \in 1..Len(Src(i).rows) :
      (UnifiedRow(i, j)[COUNTRY] = NaN)
        <=> (/\ HasField(Src(i), country)
             /\ ~CountryAllEmpty(Src(i))
             /\ FieldCell(Src(i), j, country) = NaN)

\* A source with a partly empty country column has been loaded.
C1_Witness ==
  /\ Loaded
  /\ \E i \in 1..3 :
       /\ HasField(Src(i), country)
       /\ ~CountryAllEmpty(Src(i))
       /\ \E j \in 1..Len(Src(i).rows) :
            FieldCell(Src(i), j, country) = NaN /\ UnifiedRow(i, j)[COUNTRY] = NaN
  /\ \E i \in 1..3 : HasField(Src(i), country) /\ CountryAllEmpty(Src(i)) /\ Len(Src(i).rows) > 0


(***************************************************************************)
(* C6.                                                                     *)
(***************************************************************************)
\* C6: for every record of the unified table, is_forecast is true if and only
\* if the record's type equals "forecast" up to case; it is false when the type
\* is null, and when the type was defaulted to "Actual" because the source has
\* no type column.
C6_IsForecastIffTypeIsForecast ==
  Loaded =>
    /\ \A r \in 1..Len(df.rows) :
         /\ df.rows[r][IS_FORECAST] = EqualsIgnoringCase(df.rows[r][TYPE], forecast)
         /\ df.rows[r][TYPE] = NaN => df.rows[r][IS_FORECAST] = FALSE
    /\ \A i \in 1..3 : \A j \in 1..Len(Src(i).rows) :
         ~HasField(Src(i), type) =>
           UnifiedRow(i, j)[TYPE] = Actual /\ UnifiedRow(i, j)[IS_FORECAST] = FALSE

\* The table holds a forecast row whose type is not spelled "Forecast", a row
\* with a null type and a row of a source without type column.
C6_Witness ==
  /\ Loaded
  /\ \E r \in 1..Len(df.rows) : df.rows[r][IS_FORECAST] /\ df.rows[r][TYPE] # Forecast
  /\ \E r \in 1..Len(df.rows) : df.rows[r][TYPE] = NaN /\ ~df.rows[r][IS_FORECAST]
  /\ \E i \in 1..3 : ~HasField(Src(i), type) /\ Len(Src(i).rows) > 0

(***************************************************************************)
(* C7.                                                                     *)
(***************************************************************************)
\* C7: a source whose country column is absent or entirely empty gets its own
\* default label in every row (first source "Indonesia", second "Japan", third
\* "Singapore"); a source whose country column has values keeps every original
\* country value unchanged.
C7_DefaultIsPositionalAndWholeColumn ==
  Loaded =>
    \A i \in 1..3 : \A j \in 1..Len(Src(i).rows) :
      IF ~HasField(Src(i), country) \/ CountryAllEmpty(Src(i))
        THEN UnifiedRow(i, j)[COUNTRY] = DefaultLabel(i)
        ELSE UnifiedRow(i, j)[COUNTRY] = FieldCell(Src(i), j, country)

\* The first source has an entirely empty country column, the second has
\* none and the third has values.
C7_Witness ==
  /\ Loaded
  /\ HasField(Src(1), country) /\ CountryAllEmpty(Src(1)) /\ Len(Src(1).rows) > 0
  /\ ~HasField(Src(2), country) /\ Len(Src(2).rows) > 0
  /\ HasField(Src(3), country) /\ ~CountryAllEmpty(Src(3))
  /\ df.rows[1][COUNTRY] = Indonesia
  /\ df.rows[2][COUNTRY] = Japan
  /\ df.rows[3][COUNTRY] \notin {Singapore, NaN}

(***************************************************************************)
(* C9.                                                                     *)
(***************************************************************************)
\* s is a numeral.
IsNumeral(s) == s # << >> /\ \A i \in 1..Len(s) : s[i] \in Range(Digits)

\* C9: the unified table holds exactly the rows of the three sources, each
\* once, sources in call order and rows in file order, so its length is the
\* sum of the three lengths; a row whose year or value is no number is kept,
\* with null in that field; a source without rows adds none, and the call
\* raises only when no source has a year column or a value column or when
\* every type cell is empty, never because a source has no rows.
C9_RowsKeptInOrder ==
  /\ (Len(history) = 1 /\ ret.raised) =>
       \/ \A i \in 1..3 : YearColumns(Src(i)) = {}
       \/ \A i \in 1..3 : ~HasField(Src(i), value)
       \/ /\ \E i \in 1..3 : Len(Src(i).rows) > 0
          /\ \A i \in 1..3 : \A j \in 1..Len(Src(i).rows) :
               HasField(Src(i), type) /\ FieldCell(Src(i), j, type) = NaN
  /\ Loaded =>
    /\ Len(df.rows) = Len(Src(1).rows) + Len(Src(2).rows) + Len(Src(3).rows)
    /\ \A i \in 1..3 : \A j \in 1..Len(Src(i).rows) :
         LET d == Src(i)
             row == UnifiedRow(i, j)
         IN /\ \A c \in FieldColumns(d, indicator) : row[INDICATOR] = d.rows[j][c]
            /\ \A c \in FieldColumns(d, type) : row[TYPE] = d.rows[j][c]
            /\ \A c \in FieldColumns(d, value) :
                 IF IsNumeral(d.rows[j][c]) THEN row[VALUE] # NaN ELSE row[VALUE] = NaN
            /\ \A c \in YearColumns(d) :
                 IF IsNumeral(d.rows[j][c]) THEN row[TAHUN] # NaN ELSE row[TAHUN] = NaN
            /\ YearColumns(d) = {} => row[TAHUN] = NaN

\* A source without rows, a source with two rows, and a kept row whose year
\* is no number.
C9_Witness ==
  /\ Loaded
  /\ \E i \in 1..3 : Len(Src(i).rows) = 0
  /\ \E i \in 1..3 : Len(Src(i).rows) >= 2 /\ Src(i).rows[1] # Src(i).rows[2]
  /\ \E i \in 1..3 : \E j \in 1..Len(Src(i).rows) :
       \E c \in YearColumns(Src(i)) :
         ~IsNumeral(Src(i).rows[j][c]) /\ UnifiedRow(i, j)[TAHUN] = NaN


(***************************************************************************)
(* C2.                                                                     *)
(***************************************************************************)
\* The type t matches the mode.
TypeMatches(mode, t) ==
  CASE mode = "Actual only" -> EqualsIgnoringCase(t, actual)
    [] mode = "Forecast only" -> EqualsIgnoringCase(t, forecast)
    [] mode = "Actual + Forecast" -> TRUE

\* The row passes every test but the one on its year.
MatchesButYear(row) ==
  /\ row[COUNTRY] \in negara_dipilih
  /\ row[INDICATOR] # NaN
  /\ row[INDICATOR] = indikator_dipilih
  /\ TypeMatches(mode_data, row[TYPE])

YearInRange(row) ==
  /\ row[TAHUN] # NaN
  /\ rentang_tahun[1] <= row[TAHUN][1]
  /\ row[TAHUN][1] <= rentang_tahun[2]

\* C2: a row of the unified table is in the filtered result if and only if its
\* country is selected, its indicator equals the selected one exactly, its
\* type matches the mode up to case (any type for "Actual + Forecast") and its
\* year is non-null and within the inclusive range; a row with a null year is
\* never in the result.
C2_RowKeptIffItMatches ==
  Filtered =>
    /\ \A r \in 1..Len(df.rows) :
         (df.rows[r] \in Range(df_tampil.rows))
           <=> (MatchesButYear(df.rows[r]) /\ YearInRange(df.rows[r]))
    /\ Range(df_tampil.rows) \subseteq Range(df.rows)
    /\ \A r \in 1..Len(df_tampil.rows) : df_tampil.rows[r][TAHUN] # NaN

\* The filter kept a row and left out a row that matches in everything but
\* its null year.
C2_Witness ==
  /\ Filtered
  /\ rentang_tahun[1] < rentang_tahun[2]
  /\ Len(df_tampil.rows) > 0
  /\ \E r \in 1..Len(df.rows) :
       /\ MatchesButYear(df.rows[r])
       /\ df.rows[r][TAHUN] = NaN
       /\ df.rows[r] \notin Range(df_tampil.rows)

(***************************************************************************)
(* C3.                                                                     *)
(***************************************************************************)
\* C3: a chart or a table view is produced only when one or two countries are
\* selected and the filtered rows are not empty; otherwise a warning is shown
\* and neither a chart nor a table view is produced.
C3_NothingRenderedOnWarning ==
  pc = "done" =>
    IF Cardinality(negara_dipilih) \in {1, 2} /\ Len(df_tampil.rows) > 0
      THEN TRUE
      ELSE /\ messages \cap {WarnSelection, WarnNoData} # {}
           /\ chart = << >>
           /\ table = << >>

(***************************************************************************)
(* C8.                                                                     *)
(***************************************************************************)
\* C8: filtering the filtered rows again with the same countries, indicator,
\* mode and year range gives the same rows, and the unified table is what
\* load_data_forecast returned, unchanged by the filtering.
C8_FilterIdempotentTableUntouched ==
  Filtered =>
    /\ Filter(df_tampil, negara_dipilih, indikator_dipilih, mode_data, rentang_tahun)
         = df_tampil
    /\ df = ret.value

\* The filter kept some rows of the table and dropped others.
C8_Witness ==
  /\ Filtered
  /\ tahun_min(df) < tahun_max(df)
  /\ Len(df_tampil.rows) > 0
  /\ Len(df_tampil.rows) < Len(df.rows)

(***************************************************************************)
(* C10.                                                                    *)
(***************************************************************************)
\* C10: in the chart a row is drawn dashed if and only if its is_forecast flag
\* is true, and solid otherwise.
C10_DashedIffIsForecast ==
  chart # << >> =>
    \A m \in 1..Len(chart[1]) :
      (chart[1][m].strokeDash = Dashed) <=> (chart[1][m].row[IS_FORECAST] = TRUE)

(***************************************************************************)
(* C5.                                                                     *)
(***************************************************************************)
\* The calls before the j-th with the same path triple.
EarlierCalls(j) == {i \in 1..(j - 1) : history[i].paths = history[j].paths}

\* C5 (as claimed): a call whose path triple is that of an earlier call returns
\* the table the earlier call returned and reads no file, even when a file
\* changed in between; a call with a triple not used before reads each of the
\* three files.
C5_EveryRepeatedCallServedFromCache ==
  \A j \in 1..Len(history) :
    LET c == history[j]
    IN /\ \A i \in EarlierCalls(j) :
            /\ ~c.raised
            /\ c.value = history[i].value
            /\ c.reads = << >>
       /\ EarlierCalls(j) = {} => c.reads = c.paths

\* C5 (amended): a call whose path triple is that of an earlier call that
\* returned a table returns that same table and reads no file, even when a
\* file changed in between; any other call (a new triple, or one whose earlier
\* calls all raised) runs the body, which reads the files in order and reads
\* all three unless it raises.
C5_CallServedFromCacheOnceReturned ==
  \A j \in 1..Len(history) :
    LET c == history[j]
        returned == {i \in EarlierCalls(j) : ~history[i].raised}
    IN IF returned # {}
         THEN /\ ~c.raised
              /\ c.reads = << >>
              /\ \A i \in returned : c.value = history[i].value
         ELSE /\ c.reads # << >>
              /\ c.reads = SubSeq(c.paths, 1, Len(c.reads))
              /\ ~c.raised => c.reads = c.paths

\* The last call repeated an earlier one after a file changed: it returned the
\* earlier table, which is not what the files would give now.
C5_Witness ==
  /\ Len(history) >= 2
  /\ nedits > 0
  /\ \E i \in 1..(Len(history) - 1) :
       history[i].paths = ret.paths /\ ~history[i].raised /\ history[i].value = ret.value
  /\ ret.reads = << >>
  /\ \A i \in 1..3 : ret.paths[i] \in DOMAIN files
  /\ ret.value # load_data_forecast(files[ret.paths[1]], files[ret.paths[2]],
                                    files[ret.paths[3]])

(***************************************************************************)
(* C4.                                                                     *)
(***************************************************************************)
\* The canonical name of a known field name.
Canonical(w) == IF w = year THEN TAHUN ELSE Upper(w)

\* C4 (as claimed): a column whose name equals a known field name up to case is
\* renamed to the canonical name, whatever its casing; every other column
\* keeps its name.
C4_RenameIgnoresCase ==
  renamed # NaN =>
    IF Lower(column) \in KnownNames
      THEN renamed = Canonical(Lower(column))
      ELSE renamed = column

\* C4 (amended): a column is renamed to the canonical name exactly when its
\* name is one of the listed spellings (lower, Title and upper case of country,
\* indicator, value and type; tahun and TAHUN; year and Year); every other
\* column, a known field name in another casing included, keeps its name.
C4_RenameListedSpellingsOnly ==
  renamed # NaN =>
    IF \E w \in KnownNames : column \in ListedSpellings(w)
      THEN renamed = Canonical(Lower(column))
      ELSE renamed = column

\* The header YEAR went through the rename and kept its name.
C4_Witness == column = Upper(year) /\ renamed = column

=============================================================================
